---- MODULE Spec2Model ----
(***************************************************************************)
(* Canary deployment engine of SelfHealingAPI: CanaryDeployer (canary.ts), *)
(* AutoRollbackManager (rollback.ts), MiddlewareInjector (injector.ts),    *)
(* DeploymentMetricsCollector (metrics.ts) and SelfHealingDeployer         *)
(* (index.ts).                                                             *)
(*                                                                         *)
(* Execution model.  The program runs on one JavaScript event loop.  A     *)
(* timer callback or a public call runs to its first real suspension; the  *)
(* awaits on the paths modelled here (rollbackFunction is always null, the *)
(* demo configuration makes no backup) only yield to the microtask queue,  *)
(* which drains before the next timer callback.  One action is therefore   *)
(* one callback or one call, with every continuation it schedules.         *)
(*                                                                         *)
(* Time.  A stage loop counts the firings of its own 1 s interval since    *)
(* the stage started (ticks); a rollback monitor counts its own 5 s polls  *)
(* (checks).  Rates are in permille (the collector rounds to 3 decimals).  *)
(* What getMetrics returns at a poll depends on the requests recorded and  *)
(* on the clock: it is an input of the poll, drawn from Snapshots.         *)
(***************************************************************************)
EXTENDS Integers, Sequences, FiniteSets, TLC

VARIABLES
    deployments,        \* CanaryDeployer.deployments: id -> ActiveDeployment
    featureFlags,       \* CanaryDeployer.featureFlags: id -> FeatureFlag
    stageLoop,          \* the monitorStage interval of each deployment
    stageWrites,        \* id -> the values status.stage took in the last handler that wrote it
    activeCollectors,   \* DeploymentMetricsCollector.activeCollectors
    monitors,           \* AutoRollbackManager.monitors: id -> RollbackMonitor
    monitorLoops,       \* id -> number of running monitorDeployment intervals
    rollbackHistory,    \* AutoRollbackManager.rollbackHistory
    activeMiddleware,   \* MiddlewareInjector.activeMiddleware: id -> InjectedMiddleware
    apiCalls,           \* rollback calls made by the operator so far
    emergencyRolledBack,\* ids that emergencyRollbackAll has rolled back so far
    config,             \* the configuration the SelfHealingDeployer was constructed with
    pendingInjects,     \* injectMiddleware calls waiting in createBackup
    capacityErrors,     \* injectMiddleware calls that threw the capacity error
    circuitBreakers,    \* one entry per enableCircuitBreaker call: its interval's state
    endpointMetrics,    \* DeploymentMetricsCollector.endpointMetrics: endpoint -> requests
    clock,              \* Date.now(), in seconds since construction
    returned,           \* what the last call of the traffic side gave back to its caller
    routeStack          \* the wrappers registered on POST /api/signup, in order (Express)

vars == <<deployments, featureFlags, stageLoop, stageWrites, activeCollectors,
          monitors, monitorLoops, rollbackHistory, activeMiddleware,
          apiCalls, emergencyRolledBack,
          config, pendingInjects, capacityErrors, circuitBreakers,
          endpointMetrics, clock, returned, routeStack>>

\* The state of the injector's admission.
injectVars == <<config, pendingInjects, capacityErrors>>

\* The traffic side: the requests the collector holds, the clock they are stamped
\* with, the result of the last call, and the route's wrappers.
requestVars == <<endpointMetrics, clock, returned, routeStack>>

(***************************************************************************)
(* Bounds of the model.                                                    *)
(***************************************************************************)
MaxDeployments == 2     \* deployment ids 1..MaxDeployments
StageTicks == 2         \* stage.duration, in firings of the 1 s stage interval
SampleTicks == 1        \* plan.monitoring.sampleFrequency, in the same unit
MaxPolls == 3           \* polls one rollback monitor makes
MaxApiCalls == 2        \* manual / direct / emergency rollback calls
LongPolls == 14         \* polls of a rollback monitor that is watched past its 60 s window
MaxBreakers == 1        \* enableCircuitBreaker calls
MaxRejects == 2         \* injectMiddleware calls that end in the capacity error
MaxRequests == 2        \* requests one patch is invoked for
LongStages == 17        \* stages of the long plan a caller passes to deployCanary
MaxClock == 80          \* seconds the collector is followed for
MaxSamples == 2         \* requests recorded for one endpoint
MaxUpdates == 2         \* updateMiddleware calls that replace the callable of one injection
MaxLimit == 3           \* the largest limit getRollbackHistory is called with

(***************************************************************************)
(* Program constants.                                                      *)
(***************************************************************************)
MaxEvents == 50
WindowPolls == 12       \* 60000 ms of violations / 5000 ms between polls
MinSampleSize == 10
CriticalRate == 500     \* 0.5, in permille
StageMaxErrorRate == 50 \* maxErrorRate 0.05 of every default stage, in permille
StageSuccessThreshold == 950 \* successThreshold 0.95 of every default stage
BreakerMinSamples == 10 \* the circuit breaker trips only above this sample size
BufferTicks == 10       \* the 10000 ms a stage's safety timeout adds to its duration
DefaultWindow == 60     \* windowSeconds of getMetrics when the caller gives none
CleanupEvery == 30      \* recordRequest cleans up when the last cleanup is older, in s
KeepSeconds == 300      \* cleanupOldRequests keeps the requests of the last 5 minutes

Ids == 1..MaxDeployments
Endpoints == {"/api/signup"}
Triggers == {"manual", "automatic"}

\* Map helpers (a JavaScript Map is a function on the set of its keys).
Put(m, k, v) == [x \in DOMAIN m \cup {k} |-> IF x = k THEN v ELSE m[x]]
Delete(m, k) == [x \in DOMAIN m \ {k} |-> m[x]]

(***************************************************************************)
(* DeploymentMetrics snapshots a poll can observe.                         *)
(***************************************************************************)
\* Math.round(a / b) for a >= 0, b > 0.
RoundDiv(a, b) == (2 * a + b) \div (2 * b)

\* A snapshot of n samples over the default window; throughput in hundredths of a
\* request per second.
Metrics(s, e, l, n) ==
    [successRate |-> s, errorRate |-> e, latency |-> l,
     throughput |-> RoundDiv(100 * n, DefaultWindow), sampleSize |-> n]
getEmptyMetrics == Metrics(0, 0, 0, 0)
Healthy == Metrics(1000, 0, 100, 20)
Degraded == Metrics(700, 300, 100, 20)
Critical == Metrics(400, 600, 100, 20)
Slow == Metrics(1000, 0, 20000, 20)
LowTraffic == Metrics(1000, 0, 100, 5)
CriticalAtMinimum == Metrics(400, 600, 100, MinSampleSize)
\* 23 of 25 requests succeeded: inside the plan's rollbackThresholds, outside the
\* stages' successThreshold and maxErrorRate.
Marginal == Metrics(920, 80, 100, 25)
Snapshots == {getEmptyMetrics, Healthy, Degraded, Critical, LowTraffic}

\* What a call of the traffic side gives back: how it ended, for a request the
\* wrappers it went through, for getMetrics the snapshot.
Result(r) == [result |-> r, trace |-> << >>, metrics |-> getEmptyMetrics]

(***************************************************************************)
(* Plans.  A plan is the list of its stages' percentages; deployCanary     *)
(* merges any caller-supplied stages over the default ones unvalidated.    *)
(***************************************************************************)
DefaultStages == <<10, 50, 100>>
Plans == {<<50, 10>>, <<50, 0>>}
\* A caller-supplied plan that holds the traffic at 50% for two stages.
RepeatedPlan == <<50, 50, 100>>
\* A caller-supplied plan long enough for the event log to fill.
LongPlan == [i \in 1..LongStages |-> i]
DefaultThresholds == [successRate |-> 900, errorRate |-> 100, latencyIncrease |-> 500]
\* rollbackThresholds a caller can pass in the partial plan, laxer than the stages'.
Lenient == [successRate |-> 500, errorRate |-> 500, latencyIncrease |-> 500]
ThresholdSets == {DefaultThresholds, Lenient}

\* RollbackTriggers.aggressive, and trigger lists a caller of startMonitoring can pass.
Trigger(m, t) == [metric |-> m, threshold |-> t]
Aggressive == <<Trigger("error-rate", 250), Trigger("success-rate", 750),
                Trigger("response-time", 10000)>>
ResponseTimeOnly == <<Trigger("response-time", 10000)>>
TriggerLists == {ResponseTimeOnly}
\* A caller's list with a warning and a severe trigger on the same metric.
TieredResponseTime == <<Trigger("response-time", 10000), Trigger("response-time", 15000)>>

(***************************************************************************)
(* CanaryDeployer                                                          *)
(***************************************************************************)
\* (mutant) addEvent keeping the first MaxEvents events.
addEventKeepingOldest(dep, type) ==
    LET ev == Append(dep.events, type)
    IN  [dep EXCEPT !.events = IF Len(ev) > MaxEvents THEN SubSeq(ev, 1, MaxEvents) ELSE ev,
                    !.eventsAdded = @ + 1]

\* addEvent: append, keep the last MaxEvents.  eventsAdded counts the calls, which
\* is the place of the next event in time.
addEvent(dep, type) ==
    LET ev == Append(dep.events, type)
    IN  [dep EXCEPT !.events =
            IF Len(ev) > MaxEvents THEN SubSeq(ev, Len(ev) - MaxEvents + 1, Len(ev)) ELSE ev,
                    !.eventsAdded = @ + 1]

\* stages.findIndex(s => s.percentage === percentage): 0-based, -1 when absent.
findIndex(stages, percentage) ==
    IF \E i \in 1..Len(stages) : stages[i] = percentage
    THEN (CHOOSE i \in 1..Len(stages) :
              /\ stages[i] = percentage
              /\ \A j \in 1..(i - 1) : stages[j] # percentage) - 1
    ELSE 0 - 1

\* The canary's part of the state as one value, so that calls compose.
Canary == [deployments |-> deployments, featureFlags |-> featureFlags,
           stageLoop |-> stageLoop, stageWrites |-> stageWrites,
           activeCollectors |-> activeCollectors]

\* A write of status.stage, recorded in stageWrites.
writeStage(c, d, s) ==
    [c EXCEPT !.deployments[d].stage = s,
              !.stageWrites[d] = Append(c.stageWrites[d], s)]

\* A handler begins: stageWrites restarts from the stage the handler found.
beginHandler(c, d) ==
    [c EXCEPT !.stageWrites[d] = <<c.deployments[d].stage>>]

startCollection(collectors, endpoint) == collectors \cup {endpoint}
stopCollection(collectors, endpoint) == collectors \ {endpoint}

\* A fresh monitorStage interval for stage index i (0-based), and its safety timeout
\* added to the timeouts of earlier stages that have not fired yet (pending).
newStageLoop(i, pending) ==
    [running |-> TRUE, stageIndex |-> i, ticks |-> 0,
     lastCheck |-> 0 - SampleTicks, checksCompleted |-> 0,
     timeouts |-> pending \cup {i}]

pendingTimeouts(c, d) ==
    IF d \in DOMAIN c.stageLoop THEN c.stageLoop[d].timeouts ELSE {}

deployToPercentage(c, d, percentage) ==
    LET c1 == [c EXCEPT !.featureFlags =
                   Put(c.featureFlags, d, [enabled |-> TRUE, rolloutPercentage |-> percentage])]
        c2 == [c1 EXCEPT !.deployments[d].currentStage =
                             findIndex(c.deployments[d].plan, percentage),
                         !.deployments[d].trafficPercentage = percentage]
        c3 == writeStage(c2, d, "monitoring")
    IN  [c3 EXCEPT !.deployments[d] = addEvent(c3.deployments[d], "stage-start")]

\* (mutant) completeDeployment that leaves status.stage as it found it.
completeDeploymentUnmarked(c, d) ==
    LET c2 == [c EXCEPT !.deployments[d].trafficPercentage = 100]
        c3 == [c2 EXCEPT !.deployments[d] = addEvent(c2.deployments[d], "stage-complete")]
    IN  [c3 EXCEPT !.activeCollectors =
            stopCollection(c3.activeCollectors, c.deployments[d].endpoint)]

completeDeployment(c, d) ==
    LET c1 == writeStage(c, d, "completed")
        c2 == [c1 EXCEPT !.deployments[d].trafficPercentage = 100]
        c3 == [c2 EXCEPT !.deployments[d] = addEvent(c2.deployments[d], "stage-complete")]
    IN  [c3 EXCEPT !.activeCollectors =
            stopCollection(c3.activeCollectors, c.deployments[d].endpoint)]

\* (mutant) rollbackDeployment that stops after removing the feature flag.
rollbackDeploymentUnfinished(c, d, trigger) ==
    IF d \notin DOMAIN c.deployments THEN c
    ELSE
    LET c1 == writeStage(beginHandler(c, d), d, "rolling-back")
    IN  [c1 EXCEPT !.featureFlags = Delete(c1.featureFlags, d)]

rollbackDeployment(c, d, trigger) ==
    IF d \notin DOMAIN c.deployments THEN c
    ELSE
    LET c1 == writeStage(beginHandler(c, d), d, "rolling-back")
        c2 == [c1 EXCEPT !.featureFlags = Delete(c1.featureFlags, d)]
        c3 == writeStage(c2, d, "failed")
        c4 == [c3 EXCEPT !.deployments[d].trafficPercentage = 0]
        c5 == [c4 EXCEPT !.deployments[d] = addEvent(c4.deployments[d], "rollback")]
    IN  [c5 EXCEPT !.activeCollectors =
            stopCollection(c5.activeCollectors, c.deployments[d].endpoint)]

\* (mutant) the monitoring period taken as over one firing early.
monitoringOverEarly(now) == now >= StageTicks - 1

\* now - deployment.stageStartTime >= monitoringDuration, at the firing number now of
\* the stage's interval.
monitoringOver(now) == now >= StageTicks

\* (mutant) the for loop of processDeployment stepping over a stage.
nextStageIndexSkipping(i) == i + 2

\* stageIndex++ of the for loop of processDeployment.
nextStageIndex(i) == i + 1

\* The stage loop of processDeployment from stage index i on: deploy it and start
\* its monitorStage interval, or complete the deployment after the last stage.
enterStage(c, d, i) ==
    IF i < Len(c.deployments[d].plan)
    THEN LET c1 == deployToPercentage(c, d, c.deployments[d].plan[i + 1])
         IN  [c1 EXCEPT !.stageLoop =
                 Put(c1.stageLoop, d, newStageLoop(i, pendingTimeouts(c1, d)))]
    ELSE LET c1 == completeDeployment(c, d)
         IN  [c1 EXCEPT !.stageLoop =
                IF d \in DOMAIN c1.stageLoop
                THEN [c1.stageLoop EXCEPT ![d].running = FALSE]
                ELSE c1.stageLoop]

\* deployCanary with processDeployment up to its first wait.
deployCanary(c, d, endpoint, stages, thresholds) ==
    LET status == [plan |-> stages, rollbackThresholds |-> thresholds,
                   endpoint |-> endpoint, stage |-> "planning",
                   currentStage |-> 0 - 1, trafficPercentage |-> 0, events |-> << >>,
                   eventsAdded |-> 0]
        c1 == [c EXCEPT !.deployments = Put(c.deployments, d, addEvent(status, "stage-start")),
                        !.stageWrites = Put(c.stageWrites, d, <<"planning">>)]
        c2 == writeStage(c1, d, "deploying")
        c3 == [c2 EXCEPT !.activeCollectors = startCollection(c2.activeCollectors, endpoint)]
    IN  enterStage(c3, d, 0)

\* shouldUseNewMiddleware, with the draw Math.random() * 100 as r.
shouldUseNewMiddleware(flags, d, r) ==
    /\ d \in DOMAIN flags
    /\ flags[d].enabled
    /\ r < flags[d].rolloutPercentage

(***************************************************************************)
(* DeploymentMetricsCollector.checkHealthThresholds                        *)
(***************************************************************************)
\* The baseline of the endpoint at a health check is an input of the check: none
\* (<< >>) or the snapshot the 5 s timer of startCollection took (<<b>>).
Baselines == {<< >>, <<Healthy>>}

\* latencyChange <= latencyIncrease, cross-multiplied (baseline latency > 0).
latencyOk(m, baseline, thresholds) ==
    \/ baseline = << >>
    \/ (m.latency - baseline[1].latency) * 1000
           <= thresholds.latencyIncrease * baseline[1].latency

checkHealthThresholds(m, baseline, thresholds) ==
    /\ m.successRate >= thresholds.successRate
    /\ m.errorRate <= thresholds.errorRate
    /\ latencyOk(m, baseline, thresholds)
    /\ m.sampleSize >= MinSampleSize

\* (mutant) the window of calculateMetrics taking every stored request.
recentRequestsUnfiltered(requests, now, windowSeconds) == requests

\* The requests of the window: req.timestamp >= Date.now() - windowSeconds * 1000.
recentRequests(requests, now, windowSeconds) ==
    SelectSeq(requests, LAMBDA req : req.timestamp >= now - windowSeconds)

RECURSIVE sumOf(_, _)
sumOf(requests, field) ==
    IF requests = << >> THEN 0
    ELSE Head(requests)[field] + sumOf(Tail(requests), field)

\* calculateMetrics at time now: << >> for null, else the snapshot.  Rates are
\* rounded to permille as the code rounds them to 3 decimals; latency is rounded to
\* whole milliseconds here (to 2 decimals in the code).
calculateMetrics(em, endpoint, now, windowSeconds) ==
    IF endpoint \notin DOMAIN em THEN << >>
    ELSE LET recent == recentRequests(em[endpoint].requests, now, windowSeconds)
             n == Len(recent)
             successful == SelectSeq(recent, LAMBDA req :
                               req.statusCode >= 200 /\ req.statusCode < 400)
             errors == SelectSeq(recent, LAMBDA req : req.statusCode >= 400)
         IN  IF n = 0 THEN << >>
             ELSE <<[successRate |-> RoundDiv(1000 * Len(successful), n),
                     errorRate |-> RoundDiv(1000 * Len(errors), n),
                     latency |-> RoundDiv(sumOf(recent, "responseTime"), n),
                     throughput |-> RoundDiv(100 * n, windowSeconds),
                     sampleSize |-> n]>>

\* DeploymentMetricsCollector.getMetrics(endpoint, windowSeconds) at time now.
getMetricsIn(em, endpoint, now, windowSeconds) ==
    LET calculatedMetrics == calculateMetrics(em, endpoint, now, windowSeconds)
    IN  IF calculatedMetrics = << >> THEN getEmptyMetrics ELSE calculatedMetrics[1]

\* cleanupOldRequests: the requests of the last 5 minutes (at most the last 1000 of
\* them, which the bounds never reach).
cleanupOldRequests(requests, now) ==
    SelectSeq(requests, LAMBDA req : req.timestamp >= now - KeepSeconds)

\* recordRequest at time now.
recordRequest(em, collectors, endpoint, request, now) ==
    IF endpoint \notin collectors \/ endpoint \notin DOMAIN em THEN em
    ELSE LET pushed == Append(em[endpoint].requests, request)
         IN  IF now - em[endpoint].lastCleanup > CleanupEvery
             THEN [em EXCEPT ![endpoint].requests = cleanupOldRequests(pushed, now),
                             ![endpoint].lastCleanup = now]
             ELSE [em EXCEPT ![endpoint].requests = pushed]

SetCanary(c) ==
    /\ deployments' = c.deployments
    /\ featureFlags' = c.featureFlags
    /\ stageLoop' = c.stageLoop
    /\ stageWrites' = c.stageWrites
    /\ activeCollectors' = c.activeCollectors

(***************************************************************************)
(* AutoRollbackManager                                                     *)
(***************************************************************************)
\* evaluateRollbackTriggers: one violation per configured trigger that m violates,
\* stamped with the poll it was seen at.
violatedBy(trigger, m) ==
    CASE trigger.metric = "error-rate" -> m.errorRate > trigger.threshold
      [] trigger.metric = "success-rate" -> m.successRate < trigger.threshold
      [] trigger.metric = "response-time" -> m.latency > trigger.threshold
      [] OTHER -> FALSE

currentValue(trigger, m) ==
    CASE trigger.metric = "error-rate" -> m.errorRate
      [] trigger.metric = "success-rate" -> m.successRate
      [] trigger.metric = "response-time" -> m.latency
      [] OTHER -> 0

RECURSIVE evaluateRollbackTriggers(_, _, _)
evaluateRollbackTriggers(triggers, m, poll) ==
    IF triggers = << >> THEN << >>
    ELSE LET t == Head(triggers)
             rest == evaluateRollbackTriggers(Tail(triggers), m, poll)
         IN  IF violatedBy(t, m)
             THEN <<[metric |-> t.metric, currentValue |-> currentValue(t, m),
                     timestamp |-> poll]>> \o rest
             ELSE rest

isCritical(v) ==
    \/ v.metric = "error-rate" /\ v.currentValue > CriticalRate
    \/ v.metric = "success-rate" /\ v.currentValue < CriticalRate

\* (mutant) the sustained rule asking for a fourth violation in the window.
shouldTriggerRollbackAtFourth(all, violations, poll) ==
    LET recent == {i \in 1..Len(all) : poll - all[i].timestamp < WindowPolls}
        similar(v) == {i \in recent : all[i].metric = v.metric}
    IN  \/ \E i \in 1..Len(violations) : isCritical(violations[i])
        \/ \E i \in 1..Len(violations) : Cardinality(similar(violations[i])) >= 4

\* shouldTriggerRollback(monitor, violations) at poll `poll`; all holds the monitor's
\* violations, those of this poll already pushed.
shouldTriggerRollback(all, violations, poll) ==
    LET recent == {i \in 1..Len(all) : poll - all[i].timestamp < WindowPolls}
        similar(v) == {i \in recent : all[i].metric = v.metric}
    IN  \/ \E i \in 1..Len(violations) : isCritical(violations[i])
        \/ \E i \in 1..Len(violations) : Cardinality(similar(violations[i])) >= 3

newMonitor(rollbackPlan) ==
    [active |-> TRUE, checks |-> 0, violations |-> << >>,
     triggers |-> rollbackPlan.triggers, strategy |-> rollbackPlan.strategy]

\* executeRollback after its monitor lookup: immediateRollback (gradualRollback
\* delegates to it), the success record, the monitor removed.  reason is the list of
\* the violations whose metrics the record's reason string names.
executeRollback(d, trigger, reason) ==
    /\ d \in DOMAIN monitors
    /\ SetCanary(rollbackDeployment(Canary, d, "automatic"))
    /\ rollbackHistory' = Append(rollbackHistory,
            [deploymentId |-> d, trigger |-> trigger,
             reason |-> [i \in 1..Len(reason) |-> reason[i].metric],
             success |-> TRUE, strategy |-> monitors[d].strategy])
    /\ monitors' = Delete(monitors, d)

\* performHealthCheck at a poll that observes m.
performHealthCheck(d, m) ==
    LET monitor == monitors[d]
        poll == monitor.checks + 1
        violations == evaluateRollbackTriggers(monitor.triggers, m, poll)
        all == monitor.violations \o violations
    IN  IF deployments[d].stage \in {"completed", "failed"}
        THEN \* stopMonitoring
             /\ monitors' = Delete(monitors, d)
             /\ UNCHANGED <<deployments, featureFlags, stageLoop, stageWrites,
                            activeCollectors, rollbackHistory>>
        ELSE IF violations # << >> /\ shouldTriggerRollback(all, violations, poll)
        THEN executeRollback(d, "automatic", violations)
        ELSE /\ monitors' = [monitors EXCEPT ![d].checks = poll, ![d].violations = all]
             /\ UNCHANGED <<deployments, featureFlags, stageLoop, stageWrites,
                            activeCollectors, rollbackHistory>>

(***************************************************************************)
(* MiddlewareInjector                                                      *)
(***************************************************************************)
\* DeploymentConfigurations[config].injection.
DeploymentConfigurations ==
    [production |-> [validateBeforeDeploy |-> TRUE, backupPrevious |-> TRUE,
                     maxConcurrentDeploys |-> 1],
     development |-> [validateBeforeDeploy |-> TRUE, backupPrevious |-> FALSE,
                      maxConcurrentDeploys |-> 3],
     demo |-> [validateBeforeDeploy |-> FALSE, backupPrevious |-> FALSE,
               maxConcurrentDeploys |-> 5]]

maxConcurrentDeploys == DeploymentConfigurations[config].maxConcurrentDeploys
backupPrevious == DeploymentConfigurations[config].backupPrevious
validateBeforeDeploy == DeploymentConfigurations[config].validateBeforeDeploy

\* validateMiddleware, for a function of paramCount declared parameters whose source
\* holds none of the dangerous patterns: it passes iff paramCount is 3.
ParamCounts == {2, 3, 4}
validateMiddleware(paramCount) == paramCount = 3

\* (mutant) the concurrent deployment limit checked one too late.
atCapacityOffByOne(injections) == Cardinality(DOMAIN injections) > maxConcurrentDeploys

\* The concurrent deployment limit of injectMiddleware: every entry counts, active
\* or not.
atCapacity(injections) == Cardinality(DOMAIN injections) >= maxConcurrentDeploys

\* Callables are numbered: the one a patch is injected with is FirstFunction, and
\* every updateMiddleware brings the next.
FirstFunction == 1

\* The InjectedMiddleware stored by injectMiddleware for a patch of paramCount
\* parameters attached to targetEndpoint.
injectMiddlewareOf(injections, id, paramCount, targetEndpoint) ==
    Put(injections, id,
        [active |-> TRUE, paramCount |-> paramCount, targetEndpoint |-> targetEndpoint,
         function |-> FirstFunction, requestCount |-> 0, errorCount |-> 0])

injectMiddleware(injections, id) == injectMiddlewareOf(injections, id, 3, "/api/signup")

\* createWrapperMiddleware: the closure holds the injection id and the callable it
\* was created for.
createWrapperMiddleware(id, middlewareFunction) ==
    [id |-> id, function |-> middlewareFunction]

\* injectIntoExpress for the definition deployFix builds (methods ['POST'], one
\* target endpoint): app.post(targetEndpoint, wrapper) appends the wrapper of
\* injection id to the route's handlers.  Express has no removal.
injectIntoExpress(stack, id) ==
    Append(stack, createWrapperMiddleware(id, FirstFunction))

\* updateMiddleware of a stored injection, past validation: the entry gets the new
\* callable (and a new wrapper, which is stored in the entry and nowhere else).
updateMiddleware(injections, id, paramCount) ==
    [injections EXCEPT ![id].function = @ + 1, ![id].paramCount = paramCount]

emergencyStop(injections) == [i \in DOMAIN injections |-> [injections[i] EXCEPT !.active = FALSE]]

getAllInjections(injections) == {i \in DOMAIN injections : injections[i].active}

\* removeMiddleware of an injection that exists and has no backup file.
removeMiddleware(injections, id) == Delete(injections, id)

\* What a patch does when invoked: the calls of next it makes (none, next() or
\* next(error)) and whether it then throws (or its promise rejects).
Behaviours ==
    {[calls |-> c, throws |-> t] : c \in {<< >>, <<"ok">>, <<"error">>}, t \in BOOLEAN}

\* (mutant) a wrapper that passes through only for an injection that is still stored.
passesThroughIfStored(injections, id) ==
    id \in DOMAIN injections /\ ~injections[id].active

\* The first test of the wrapper: the injection is gone or inactive.
passesThrough(injections, id) ==
    id \notin DOMAIN injections \/ ~injections[id].active

\* One invocation of a wrapper for a request that matches its conditions (POST on
\* its route), the callable behaving as b: the injections after it and what happened
\* (whether the wrapper's callable was invoked, the calls of the continuation).
wrapperCall(injections, wrapper, b) ==
    LET id == wrapper.id
    IN
    IF passesThrough(injections, id)
    THEN [injections |-> injections,
          entry |-> [id |-> id, function |-> wrapper.function, invoked |-> FALSE,
                     next |-> <<"ok">>]]
    ELSE LET errors == (IF b.calls = <<"error">> THEN 1 ELSE 0)
                           + (IF b.throws THEN 1 ELSE 0)
             counted == IF id \in DOMAIN injections
                        THEN [injections EXCEPT ![id].requestCount = @ + 1,
                                                ![id].errorCount = @ + errors]
                        ELSE injections
         IN  [injections |-> counted,
              entry |-> [id |-> id, function |-> wrapper.function, invoked |-> TRUE,
                         next |-> b.calls \o (IF b.throws THEN <<"error">> ELSE << >>)]]

\* Express runs the route's handlers in order; a handler's first next() hands the
\* request to the following handler, next(error) to the error handlers, and a
\* handler that calls neither ends the chain.
RECURSIVE dispatch(_, _, _, _)
dispatch(injections, stack, b, trace) ==
    IF stack = << >> THEN [injections |-> injections, trace |-> trace]
    ELSE LET r == wrapperCall(injections, Head(stack), b)
             on == Append(trace, r.entry)
         IN  IF r.entry.next # << >> /\ r.entry.next[1] = "ok"
             THEN dispatch(r.injections, Tail(stack), b, on)
             ELSE [injections |-> r.injections, trace |-> on]

\* emergencyRollbackAll: the deployments it rolls back, and the canary after them.
emergencyTargets == {d \in DOMAIN deployments : deployments[d].stage \notin {"completed", "failed"}}

RECURSIVE rollbackEach(_, _)
rollbackEach(c, S) ==
    IF S = {} THEN c
    ELSE LET d == CHOOSE x \in S : \A y \in S : x <= y
         IN  rollbackEach(rollbackDeployment(c, d, "automatic"), S \ {d})

\* (mutant) emergencyRollbackAll going through executeRollback, which needs a monitor
\* for every deployment it rolls back.
emergencyRollbackAllViaMonitors ==
    /\ \A d \in emergencyTargets : d \in DOMAIN monitors
    /\ SetCanary(rollbackEach(Canary, emergencyTargets))
    /\ activeMiddleware' = emergencyStop(activeMiddleware)

emergencyRollbackAll ==
    /\ SetCanary(rollbackEach(Canary, emergencyTargets))
    /\ activeMiddleware' = emergencyStop(activeMiddleware)

(***************************************************************************)
(* Circuit breaker (AutoRollbackManager.enableCircuitBreaker)              *)
(***************************************************************************)
\* The thresholds the operator enables the breaker with.
BreakerThresholds == [errorRate |-> 500, duration |-> 60]

\* recordRequest drops every request of a route whose collection is stopped, so what
\* getMetrics returns for the route is its traffic while the collector is active and
\* whatever was recorded before (stale) otherwise.
getMetrics(collectors, endpoint, traffic, stale) ==
    IF endpoint \in collectors THEN traffic ELSE stale

\* The condition under which a circuitBreakerCheck firing trips.
breakerTrips(m, thresholds) ==
    /\ m.errorRate > thresholds.errorRate
    /\ m.sampleSize > BreakerMinSamples

(***************************************************************************)
(* The state after construction, and the actions.                          *)
(***************************************************************************)
Init ==
    /\ deployments = << >>
    /\ featureFlags = << >>
    /\ stageLoop = << >>
    /\ stageWrites = << >>
    /\ activeCollectors = {}
    /\ monitors = << >>
    /\ monitorLoops = [d \in Ids |-> 0]
    /\ rollbackHistory = << >>
    /\ activeMiddleware = << >>
    /\ apiCalls = 0
    /\ emergencyRolledBack = {}
    /\ config = "demo"
    /\ pendingInjects = {}
    /\ capacityErrors = 0
    /\ circuitBreakers = << >>
    /\ endpointMetrics = << >>
    /\ clock = 0
    /\ returned = Result("none")
    /\ routeStack = << >>

\* Ids are handed out in order (randomUUID never repeats).
NextId(d) ==
    /\ d \notin DOMAIN deployments
    /\ \A e \in 1..(d - 1) : e \in DOMAIN deployments

\* canaryDeployer.deployCanary(middleware, {stages, rollbackThresholds}) called directly.
DeployCanary(d, stages, thresholds) ==
    /\ NextId(d)
    /\ SetCanary(deployCanary(Canary, d, "/api/signup", stages, thresholds))
    /\ UNCHANGED <<monitors, monitorLoops, rollbackHistory, activeMiddleware,
                   apiCalls, emergencyRolledBack, injectVars, circuitBreakers, requestVars>>

\* SelfHealingDeployer.deployFix: inject, deploy with the default plan, start the
\* rollback monitor with the aggressive triggers.
DeployFix(d) ==
    /\ NextId(d)
    /\ ~backupPrevious
    /\ ~atCapacity(activeMiddleware)
    /\ activeMiddleware' = injectMiddleware(activeMiddleware, d)
    /\ routeStack' = injectIntoExpress(routeStack, d)
    /\ SetCanary(deployCanary(Canary, d, "/api/signup", DefaultStages, DefaultThresholds))
    /\ monitors' = Put(monitors, d, newMonitor([triggers |-> Aggressive, strategy |-> "immediate"]))
    /\ monitorLoops' = [monitorLoops EXCEPT ![d] = @ + 1]
    /\ UNCHANGED <<rollbackHistory, apiCalls, emergencyRolledBack, injectVars,
                   circuitBreakers, endpointMetrics, clock, returned>>

\* deployFix with a patch whose compiled function declares paramCount parameters, under
\* a configuration that makes no backup: injectMiddleware validates if configured to,
\* checks the limit, and only then the canary and the rollback monitor are started.
DeployFixWith(d, paramCount) ==
    /\ NextId(d)
    /\ ~backupPrevious
    /\ IF validateBeforeDeploy /\ ~validateMiddleware(paramCount)
       THEN /\ returned' = Result("validation-error")
            /\ UNCHANGED <<deployments, featureFlags, stageLoop, stageWrites,
                           activeCollectors, monitors, monitorLoops, activeMiddleware,
                           routeStack>>
       ELSE IF atCapacity(activeMiddleware)
       THEN /\ returned' = Result("capacity-error")
            /\ UNCHANGED <<deployments, featureFlags, stageLoop, stageWrites,
                           activeCollectors, monitors, monitorLoops, activeMiddleware,
                           routeStack>>
       ELSE /\ returned' = Result("deployed")
            /\ activeMiddleware' =
                   injectMiddlewareOf(activeMiddleware, d, paramCount, "/api/signup")
            /\ routeStack' = injectIntoExpress(routeStack, d)
            /\ SetCanary(deployCanary(Canary, d, "/api/signup", DefaultStages,
                                      DefaultThresholds))
            /\ monitors' = Put(monitors, d,
                   newMonitor([triggers |-> Aggressive, strategy |-> "immediate"]))
            /\ monitorLoops' = [monitorLoops EXCEPT ![d] = @ + 1]
    /\ UNCHANGED <<rollbackHistory, apiCalls, emergencyRolledBack, injectVars,
                   circuitBreakers, endpointMetrics, clock>>

\* rollbackManager.startMonitoring(d, rollbackPlan) called directly.
StartMonitoring(d, triggers) ==
    /\ d \in DOMAIN deployments
    /\ d \notin DOMAIN monitors
    /\ monitorLoops[d] = 0
    /\ monitors' = Put(monitors, d, newMonitor([triggers |-> triggers, strategy |-> "immediate"]))
    /\ monitorLoops' = [monitorLoops EXCEPT ![d] = @ + 1]
    /\ UNCHANGED <<deployments, featureFlags, stageLoop, stageWrites, activeCollectors,
                   rollbackHistory, activeMiddleware,
                   apiCalls, emergencyRolledBack, injectVars, circuitBreakers, requestVars>>

\* One firing of the monitorStage interval of d; m is what checkHealthThresholds
\* reads from the collector at this firing, b the endpoint's baseline then.
StageTick(d, m, b) ==
    /\ d \in DOMAIN stageLoop
    /\ stageLoop[d].running
    /\ LET l == stageLoop[d]
           now == l.ticks + 1
           c0 == [Canary EXCEPT !.stageLoop[d].ticks = now]
       IN  IF monitoringOver(now)
           THEN \* the monitoring period is over: the stage succeeded, the
                \* processDeployment loop goes on
                LET c1 == [c0 EXCEPT !.stageLoop[d].running = FALSE,
                                     !.deployments[d] = addEvent(@, "stage-complete")]
                IN  SetCanary(enterStage(beginHandler(c1, d), d, nextStageIndex(l.stageIndex)))
           ELSE IF now - l.lastCheck >= SampleTicks
           THEN LET c1 == [c0 EXCEPT !.stageLoop[d].lastCheck = now,
                                     !.stageLoop[d].checksCompleted = @ + 1,
                                     !.deployments[d] = addEvent(@, "metrics-check")]
                IN  IF checkHealthThresholds(m, b, deployments[d].rollbackThresholds)
                    THEN SetCanary(c1)
                    ELSE \* the stage failed: processDeployment rolls back
                         LET c2 == [c1 EXCEPT !.stageLoop[d].running = FALSE,
                                              !.deployments[d] = addEvent(@, "rollback")]
                         IN  SetCanary(rollbackDeployment(c2, d, "automatic"))
           ELSE SetCanary(c0)
    /\ UNCHANGED <<monitors, monitorLoops, rollbackHistory, activeMiddleware,
                   apiCalls, emergencyRolledBack, injectVars, circuitBreakers, requestVars>>

\* The safety timeout of stage index i of d fires, BufferTicks after the stage's
\* duration.  If the stage's interval is still running it is cleared and the stage
\* resolves as failed ("Monitoring timeout"), so processDeployment rolls back;
\* otherwise clearInterval and resolve have no effect.  The interval and the timeout
\* are set in the same synchronous block, so the timeout comes after the interval's
\* firing number StageTicks + BufferTicks - 1; how long after the stage was resolved
\* it comes is left open.
StageTimeout(d, i) ==
    /\ d \in DOMAIN stageLoop
    /\ i \in stageLoop[d].timeouts
    /\ LET l == stageLoop[d]
           c0 == [Canary EXCEPT !.stageLoop[d].timeouts = @ \ {i}]
       IN  IF l.running /\ l.stageIndex = i
           THEN /\ l.ticks >= StageTicks + BufferTicks - 1
                /\ SetCanary(rollbackDeployment(
                       [c0 EXCEPT !.stageLoop[d].running = FALSE], d, "automatic"))
           ELSE SetCanary(c0)
    /\ UNCHANGED <<monitors, monitorLoops, rollbackHistory, activeMiddleware,
                   apiCalls, emergencyRolledBack, injectVars, circuitBreakers,
                   requestVars>>

\* One firing of a monitorDeployment interval of d, observing m; the monitor is
\* followed for its first `limit` polls.
MonitorPollWithin(d, m, limit) ==
    /\ monitorLoops[d] > 0
    /\ IF d \notin DOMAIN monitors \/ ~monitors[d].active
       THEN \* clearInterval
            /\ monitorLoops' = [monitorLoops EXCEPT ![d] = @ - 1]
            /\ UNCHANGED <<deployments, featureFlags, stageLoop, stageWrites,
                           activeCollectors, monitors, rollbackHistory>>
       ELSE /\ monitors[d].checks < limit
            /\ performHealthCheck(d, m)
            /\ UNCHANGED monitorLoops
    /\ UNCHANGED <<activeMiddleware, apiCalls, emergencyRolledBack, injectVars,
                   circuitBreakers, requestVars>>

MonitorPoll(d, m) == MonitorPollWithin(d, m, MaxPolls)

\* rollbackManager.manualRollback(d): throws, changing nothing, without a monitor.
ManualRollback(d) ==
    /\ apiCalls < MaxApiCalls
    /\ apiCalls' = apiCalls + 1
    /\ executeRollback(d, "manual", << >>)
    /\ UNCHANGED <<monitorLoops, activeMiddleware, emergencyRolledBack, injectVars,
                   circuitBreakers, requestVars>>

\* canaryDeployer.rollbackDeployment(d, trigger) called directly.
RollbackDeployment(d, trigger) ==
    /\ apiCalls < MaxApiCalls
    /\ apiCalls' = apiCalls + 1
    /\ d \in DOMAIN deployments
    /\ SetCanary(rollbackDeployment(Canary, d, trigger))
    /\ UNCHANGED <<monitors, monitorLoops, rollbackHistory, activeMiddleware,
                   emergencyRolledBack, injectVars, circuitBreakers, requestVars>>

\* rollbackManager.emergencyRollbackAll(reason).
EmergencyRollbackAll ==
    /\ apiCalls < MaxApiCalls
    /\ apiCalls' = apiCalls + 1
    /\ emergencyRollbackAll
    /\ emergencyRolledBack' = emergencyRolledBack \cup emergencyTargets
    /\ UNCHANGED <<monitors, monitorLoops, rollbackHistory, injectVars, circuitBreakers, requestVars>>

\* The state after construction with the production configuration.
InitProduction ==
    /\ deployments = << >>
    /\ featureFlags = << >>
    /\ stageLoop = << >>
    /\ stageWrites = << >>
    /\ activeCollectors = {}
    /\ monitors = << >>
    /\ monitorLoops = [d \in Ids |-> 0]
    /\ rollbackHistory = << >>
    /\ activeMiddleware = << >>
    /\ apiCalls = 0
    /\ emergencyRolledBack = {}
    /\ config = "production"
    /\ pendingInjects = {}
    /\ capacityErrors = 0
    /\ circuitBreakers = << >>
    /\ endpointMetrics = << >>
    /\ clock = 0
    /\ returned = Result("none")
    /\ routeStack = << >>

\* The state after construction with a configuration that makes no backup.
InitDemoOrDevelopment ==
    /\ deployments = << >>
    /\ featureFlags = << >>
    /\ stageLoop = << >>
    /\ stageWrites = << >>
    /\ activeCollectors = {}
    /\ monitors = << >>
    /\ monitorLoops = [d \in Ids |-> 0]
    /\ rollbackHistory = << >>
    /\ activeMiddleware = << >>
    /\ apiCalls = 0
    /\ emergencyRolledBack = {}
    /\ config \in {"demo", "development"}
    /\ pendingInjects = {}
    /\ capacityErrors = 0
    /\ circuitBreakers = << >>
    /\ endpointMetrics = << >>
    /\ clock = 0
    /\ returned = Result("none")
    /\ routeStack = << >>

\* Ids of fixes whose deployFix is under way or done.
FreshId(d) ==
    /\ d \notin DOMAIN deployments \cup pendingInjects
    /\ \A e \in 1..(d - 1) : e \in DOMAIN deployments \cup pendingInjects

\* deployFix with a configuration that makes backups, up to the file I/O of
\* createBackup: injectMiddleware validates, checks the limit and either throws the
\* capacity error (deployFix rethrows it) or suspends in createBackup.
InjectBegin(d) ==
    /\ backupPrevious
    /\ FreshId(d)
    /\ IF atCapacity(activeMiddleware)
       THEN /\ capacityErrors < MaxRejects
            /\ capacityErrors' = capacityErrors + 1
            /\ UNCHANGED pendingInjects
       ELSE /\ pendingInjects' = pendingInjects \cup {d}
            /\ UNCHANGED capacityErrors
    /\ UNCHANGED <<deployments, featureFlags, stageLoop, stageWrites, activeCollectors,
                   monitors, monitorLoops, rollbackHistory, activeMiddleware,
                   apiCalls, emergencyRolledBack, config, circuitBreakers, requestVars>>

\* The backup of d is written: injectMiddleware registers the injection and returns,
\* deployFix deploys the canary and starts the rollback monitor.
InjectEnd(d) ==
    /\ d \in pendingInjects
    /\ pendingInjects' = pendingInjects \ {d}
    /\ activeMiddleware' = injectMiddleware(activeMiddleware, d)
    /\ routeStack' = injectIntoExpress(routeStack, d)
    /\ SetCanary(deployCanary(Canary, d, "/api/signup", DefaultStages, DefaultThresholds))
    /\ monitors' = Put(monitors, d, newMonitor([triggers |-> Aggressive, strategy |-> "immediate"]))
    /\ monitorLoops' = [monitorLoops EXCEPT ![d] = @ + 1]
    /\ UNCHANGED <<rollbackHistory, apiCalls, emergencyRolledBack, config, capacityErrors,
                   circuitBreakers, endpointMetrics, clock, returned>>

\* injector.removeMiddleware(id), under a configuration that makes no backup: the
\* injection is marked inactive and deleted; the wrapper stays on the route.  For an
\* id that is not stored it throws 'Middleware not found'.
RemoveMiddleware(id) ==
    /\ ~backupPrevious
    /\ \E k \in 1..Len(routeStack) : routeStack[k].id = id
    /\ IF id \in DOMAIN activeMiddleware
       THEN /\ activeMiddleware' = removeMiddleware(activeMiddleware, id)
            /\ returned' = Result("removed")
       ELSE /\ returned' = Result("not-found")
            /\ UNCHANGED activeMiddleware
    /\ UNCHANGED <<deployments, featureFlags, stageLoop, stageWrites, activeCollectors,
                   monitors, monitorLoops, rollbackHistory, apiCalls,
                   emergencyRolledBack, injectVars, circuitBreakers,
                   endpointMetrics, clock, routeStack>>

\* injector.updateMiddleware(id, f) for a callable f of paramCount parameters: it
\* throws for an id that is not stored and, if the configuration validates, for a
\* callable that fails validation.
UpdateMiddleware(id, paramCount) ==
    /\ \E k \in 1..Len(routeStack) : routeStack[k].id = id
    /\ IF id \notin DOMAIN activeMiddleware
       THEN /\ returned' = Result("not-found")
            /\ UNCHANGED activeMiddleware
       ELSE IF validateBeforeDeploy /\ ~validateMiddleware(paramCount)
       THEN /\ returned' = Result("validation-error")
            /\ UNCHANGED activeMiddleware
       ELSE /\ activeMiddleware[id].function < FirstFunction + MaxUpdates
            /\ activeMiddleware' = updateMiddleware(activeMiddleware, id, paramCount)
            /\ returned' = Result("updated")
    /\ UNCHANGED <<deployments, featureFlags, stageLoop, stageWrites, activeCollectors,
                   monitors, monitorLoops, rollbackHistory, apiCalls,
                   emergencyRolledBack, injectVars, circuitBreakers,
                   endpointMetrics, clock, routeStack>>

\* A POST request on /api/signup goes through the route's wrappers, every patch it
\* reaches behaving as b.
Request(b) ==
    /\ routeStack # << >>
    /\ \A id \in DOMAIN activeMiddleware : activeMiddleware[id].requestCount < MaxRequests
    /\ LET r == dispatch(activeMiddleware, routeStack, b, << >>)
       IN  /\ activeMiddleware' = r.injections
           /\ returned' = [Result("handled") EXCEPT !.trace = r.trace]
    /\ UNCHANGED <<deployments, featureFlags, stageLoop, stageWrites, activeCollectors,
                   monitors, monitorLoops, rollbackHistory, apiCalls,
                   emergencyRolledBack, injectVars, circuitBreakers,
                   endpointMetrics, clock, routeStack>>

\* The routes requests arrive on; collection is only ever started for the first.
Routes == {"/api/signup", "/api/login"}
StatusCodes == {200, 500}
ResponseTimes == {100, 300}
Windows == {30, DefaultWindow}

collectorRest ==
    <<deployments, featureFlags, stageLoop, stageWrites, monitors, monitorLoops,
      rollbackHistory, activeMiddleware, apiCalls, emergencyRolledBack, injectVars,
      circuitBreakers, routeStack>>

\* Time passes.
Advance(dt) ==
    /\ clock + dt <= MaxClock
    /\ clock' = clock + dt
    /\ UNCHANGED <<activeCollectors, endpointMetrics, returned>>
    /\ UNCHANGED collectorRest

\* metricsCollector.startCollection(endpoint): nothing if the endpoint is already
\* collected, else a fresh request list.
StartCollection(endpoint) ==
    /\ IF endpoint \in activeCollectors
       THEN UNCHANGED <<activeCollectors, endpointMetrics>>
       ELSE /\ endpointMetrics' = Put(endpointMetrics, endpoint,
                                      [requests |-> << >>, lastCleanup |-> clock])
            /\ activeCollectors' = startCollection(activeCollectors, endpoint)
    /\ returned' = Result("started")
    /\ UNCHANGED clock
    /\ UNCHANGED collectorRest

\* metricsCollector.stopCollection(endpoint).
StopCollection(endpoint) ==
    /\ activeCollectors' = stopCollection(activeCollectors, endpoint)
    /\ returned' = Result("stopped")
    /\ UNCHANGED <<endpointMetrics, clock>>
    /\ UNCHANGED collectorRest

\* The metrics middleware records a finished request of the route.
RecordRequest(endpoint, statusCode, responseTime) ==
    /\ endpoint \in DOMAIN endpointMetrics => Len(endpointMetrics[endpoint].requests) < MaxSamples
    /\ endpointMetrics' =
           recordRequest(endpointMetrics, activeCollectors, endpoint,
                         [timestamp |-> clock, statusCode |-> statusCode,
                          responseTime |-> responseTime], clock)
    /\ returned' = Result("recorded")
    /\ UNCHANGED <<activeCollectors, clock>>
    /\ UNCHANGED collectorRest

\* metricsCollector.getMetrics(endpoint, windowSeconds); the call is kept with its
\* result.
GetMetrics(endpoint, windowSeconds) ==
    /\ returned' =
           [result |-> "metrics",
            trace |-> <<[endpoint |-> endpoint, windowSeconds |-> windowSeconds,
                         at |-> clock]>>,
            metrics |-> getMetricsIn(endpointMetrics, endpoint, clock, windowSeconds)]
    /\ UNCHANGED <<activeCollectors, endpointMetrics, clock>>
    /\ UNCHANGED collectorRest

\* Array.prototype.slice(start) with no end: a negative start counts from the end,
\* and -0 is 0.
slice(array, start) ==
    LET len == Len(array)
        k == IF start < 0
             THEN (IF len + start > 0 THEN len + start ELSE 0)
             ELSE (IF start < len THEN start ELSE len)
    IN  SubSeq(array, k + 1, len)

\* Array.prototype.reverse.
reverse(array) == [i \in 1..Len(array) |-> array[Len(array) - i + 1]]

\* AutoRollbackManager.getRollbackHistory(limit).
getRollbackHistory(history, limit) == reverse(slice(history, 0 - limit))

\* rollbackManager.getRollbackHistory(limit); the call is kept with its result.
GetRollbackHistory(limit) ==
    /\ returned' =
           [result |-> "history",
            trace |-> <<[limit |-> limit, at |-> Len(rollbackHistory),
                         records |-> getRollbackHistory(rollbackHistory, limit)]>>,
            metrics |-> getEmptyMetrics]
    /\ UNCHANGED <<deployments, featureFlags, stageLoop, stageWrites, activeCollectors,
                   monitors, monitorLoops, rollbackHistory, activeMiddleware, apiCalls,
                   emergencyRolledBack, injectVars, circuitBreakers,
                   endpointMetrics, clock, routeStack>>

\* rollbackManager.enableCircuitBreaker("/api/signup", BreakerThresholds).
EnableCircuitBreaker ==
    /\ Len(circuitBreakers) < MaxBreakers
    /\ circuitBreakers' = Append(circuitBreakers, "running")
    /\ UNCHANGED <<deployments, featureFlags, stageLoop, stageWrites, activeCollectors,
                   monitors, monitorLoops, rollbackHistory, activeMiddleware,
                   apiCalls, emergencyRolledBack, injectVars, requestVars>>

\* One firing of the circuitBreakerCheck interval k, the route's traffic over the
\* breaker's window being `traffic`: it trips once, rolls everything back and clears
\* itself.
BreakerCheck(k, traffic, stale) ==
    /\ k \in 1..Len(circuitBreakers)
    /\ circuitBreakers[k] = "running"
    /\ IF breakerTrips(getMetrics(activeCollectors, "/api/signup", traffic, stale),
                       BreakerThresholds)
       THEN /\ emergencyRollbackAll
            /\ emergencyRolledBack' = emergencyRolledBack \cup emergencyTargets
            /\ circuitBreakers' = [circuitBreakers EXCEPT ![k] = "tripped"]
       ELSE UNCHANGED <<deployments, featureFlags, stageLoop, stageWrites,
                        activeCollectors, activeMiddleware, emergencyRolledBack,
                        circuitBreakers>>
    /\ UNCHANGED <<monitors, monitorLoops, rollbackHistory, apiCalls, injectVars, requestVars>>

\* The one-hour timeout of breaker k clears its interval.
BreakerTimeout(k) ==
    /\ k \in 1..Len(circuitBreakers)
    /\ circuitBreakers[k] = "running"
    /\ circuitBreakers' = [circuitBreakers EXCEPT ![k] = "expired"]
    /\ UNCHANGED <<deployments, featureFlags, stageLoop, stageWrites, activeCollectors,
                   monitors, monitorLoops, rollbackHistory, activeMiddleware,
                   apiCalls, emergencyRolledBack, injectVars, requestVars>>

\* One deployment, every input: custom plans, custom trigger lists, every rollback
\* call.
Solo == {1}

Next ==
    \/ \E d \in Solo, p \in Plans : DeployCanary(d, p, DefaultThresholds)
    \/ \E d \in Solo : DeployFix(d)
    \/ \E d \in Solo, t \in TriggerLists : StartMonitoring(d, t)
    \/ \E d \in Solo, m \in Snapshots, b \in Baselines : StageTick(d, m, b)
    \/ \E d \in Solo, m \in Snapshots : MonitorPoll(d, m)
    \/ \E d \in Solo : ManualRollback(d)
    \/ \E d \in Solo, t \in Triggers : RollbackDeployment(d, t)
    \/ EmergencyRollbackAll

Spec == Init /\ [][Next]_vars

\* Several fixes deployed through deployFix, their stage loops and rollback monitors
\* running, and emergency rollbacks.
NextFleet ==
    \/ \E d \in Ids : DeployFix(d)
    \/ \E d \in Ids, b \in Baselines : StageTick(d, Healthy, b)
    \/ \E d \in Ids, m \in {Healthy, Critical} : MonitorPoll(d, m)
    \/ EmergencyRollbackAll

SpecFleet == Init /\ [][NextFleet]_vars

\* One fix deployed through deployFix whose rollback monitor is followed past its
\* 60 s violation window, with snapshots that violate a trigger without being critical.
NextMonitor ==
    \/ \E d \in Solo : DeployFix(d)
    \/ \E d \in Solo, m \in {Healthy, Degraded, Slow} : MonitorPollWithin(d, m, LongPolls)

SpecMonitor == Init /\ [][NextMonitor]_vars

\* One deployment on a route whose error rate stays at 0.30: every stage health
\* check and every rollback-monitor poll observes Degraded.
NextSustained ==
    \/ \E d \in Solo, p \in Plans \cup {DefaultStages}, th \in ThresholdSets :
           DeployCanary(d, p, th)
    \/ \E d \in Solo, t \in TriggerLists \cup {Aggressive} : StartMonitoring(d, t)
    \/ \E d \in Solo, b \in Baselines : StageTick(d, Degraded, b)
    \/ \E d \in Solo : MonitorPoll(d, Degraded)

SpecSustained == Init /\ [][NextSustained]_vars

\* Fixes deployed on a route that a circuit breaker guards.
BreakerSnapshots == {Healthy, Critical, CriticalAtMinimum}

NextBreaker ==
    \/ \E d \in Ids : DeployFix(d)
    \/ \E d \in Ids, b \in Baselines : StageTick(d, Healthy, b)
    \/ EnableCircuitBreaker
    \/ \E k \in 1..MaxBreakers, traffic \in BreakerSnapshots,
          stale \in {getEmptyMetrics, Critical} : BreakerCheck(k, traffic, stale)
    \/ \E k \in 1..MaxBreakers : BreakerTimeout(k)

SpecBreaker == Init /\ [][NextBreaker]_vars

\* Fixes deployed with the production configuration (backups, one concurrent
\* deployment), their stage loops, and emergency rollbacks.
NextInject ==
    \/ \E d \in Ids : InjectBegin(d)
    \/ \E d \in Ids : InjectEnd(d)
    \/ \E d \in Ids, b \in Baselines : StageTick(d, Healthy, b)
    \/ EmergencyRollbackAll

SpecInject == InitProduction /\ [][NextInject]_vars

\* Fixes of any arity deployed under the demo and the development configuration.
NextValidate ==
    \/ \E d \in Ids, n \in ParamCounts : DeployFixWith(d, n)
    \/ \E d \in Ids, b \in Baselines : StageTick(d, Healthy, b)

SpecValidate == InitDemoOrDevelopment /\ [][NextValidate]_vars

\* Fixes deployed through deployFix on the same route, requests going through their
\* wrappers, patches removed or stopped.
NextRequests ==
    \/ \E d \in Ids : DeployFix(d)
    \/ \E id \in Ids : RemoveMiddleware(id)
    \/ \E b \in Behaviours : Request(b)
    \/ EmergencyRollbackAll

SpecRequests == Init /\ [][NextRequests]_vars

\* One deployment with a plan of many stages, its stage loop, and rollbacks called
\* from outside: every handler that appends to the event log.
NextEvents ==
    \/ \E d \in Solo : DeployCanary(d, LongPlan, DefaultThresholds)
    \/ \E d \in Solo, m \in {Healthy, Degraded}, b \in Baselines : StageTick(d, m, b)
    \/ \E d \in Solo, t \in Triggers : RollbackDeployment(d, t)

SpecEvents == Init /\ [][NextEvents]_vars

\* The collector on its own: collection started and stopped for one route, requests
\* arriving on two, time passing, snapshots taken.
NextCollector ==
    \/ \E dt \in {20, 40} : Advance(dt)
    \/ StartCollection("/api/signup")
    \/ StopCollection("/api/signup")
    \/ \E ep \in Routes, sc \in StatusCodes, rt \in ResponseTimes : RecordRequest(ep, sc, rt)
    \/ \E ep \in Routes, w \in Windows : GetMetrics(ep, w)

SpecCollector == Init /\ [][NextCollector]_vars

\* One deployment whose stage interval keeps firing while it runs (setInterval),
\* with its safety timeouts and with rollbacks called from outside.
NextLive ==
    \/ \E d \in Solo, p \in Plans \cup {DefaultStages} : DeployCanary(d, p, DefaultThresholds)
    \/ \E d \in Solo, m \in {Healthy, Degraded}, b \in Baselines : StageTick(d, m, b)
    \/ \E d \in Solo, i \in 0..(Len(DefaultStages) - 1) : StageTimeout(d, i)
    \/ \E d \in Solo, t \in Triggers : RollbackDeployment(d, t)

SpecLive ==
    /\ Init
    /\ [][NextLive]_vars
    /\ \A d \in Solo : WF_vars(\E m \in {Healthy, Degraded}, b \in Baselines : StageTick(d, m, b))

\* Two deployments on the same route, made by deployCanary with the default plan,
\* and their stage loops; nothing rolls a deployment back from outside.
NextShared ==
    \/ \E d \in Ids : DeployCanary(d, DefaultStages, DefaultThresholds)
    \/ \E d \in Ids, m \in {Healthy, Degraded}, b \in Baselines : StageTick(d, m, b)

SpecShared == Init /\ [][NextShared]_vars

\* Deployments with the default stages whose health checks observe a route that is
\* healthy or has 8% of errors.
NextStage ==
    \/ \E d \in Ids, th \in ThresholdSets : DeployCanary(d, DefaultStages, th)
    \/ \E d \in Ids, m \in {Healthy, Marginal}, b \in Baselines : StageTick(d, m, b)

SpecStage == Init /\ [][NextStage]_vars

\* A fix deployed through deployFix under the demo or the development
\* configuration, its callable replaced, requests going through its wrapper, the
\* patch removed.
NextReplace ==
    \/ \E d \in Solo : DeployFix(d)
    \/ \E id \in Solo, n \in ParamCounts : UpdateMiddleware(id, n)
    \/ \E id \in Solo : RemoveMiddleware(id)
    \/ \E b \in Behaviours : Request(b)

SpecReplace == InitDemoOrDevelopment /\ [][NextReplace]_vars

\* Fixes deployed through deployFix, rolled back by their monitors or by the
\* operator, and the rollback history read with every limit.
NextHistory ==
    \/ \E d \in Ids : DeployFix(d)
    \/ \E d \in Ids, m \in {Healthy, Critical} : MonitorPoll(d, m)
    \/ \E d \in Ids : ManualRollback(d)
    \/ \E limit \in 0..MaxLimit : GetRollbackHistory(limit)

SpecHistory == Init /\ [][NextHistory]_vars

\* One deployment whose rollback monitor is started by the caller with a trigger
\* list of its choice and observes no critical snapshot.
NextTriggers ==
    \/ \E d \in Solo : DeployCanary(d, DefaultStages, DefaultThresholds)
    \/ \E d \in Solo, t \in {Aggressive, ResponseTimeOnly, TieredResponseTime} :
           StartMonitoring(d, t)
    \/ \E d \in Solo, b \in Baselines : StageTick(d, Healthy, b)
    \/ \E d \in Solo, m \in {Healthy, Degraded, Slow} : MonitorPoll(d, m)

SpecTriggers == Init /\ [][NextTriggers]_vars

\* Deployments with the default plan or a plan of the caller, among them one with
\* two stages of the same percentage and plans that end below 100%, and their
\* stage loops.
NextPlans ==
    \/ \E d \in Ids, p \in Plans \cup {DefaultStages, RepeatedPlan} :
           DeployCanary(d, p, DefaultThresholds)
    \/ \E d \in Ids, m \in {Healthy, Degraded}, b \in Baselines : StageTick(d, m, b)

SpecPlans == Init /\ [][NextPlans]_vars

(***************************************************************************)
(* Properties                                                              *)
(***************************************************************************)
RolledBack == {"rolling-back", "failed"}

\* C1: every write of a deployment's status.stage follows planning -> deploying ->
\* monitoring -> monitoring* -> completed, or monitoring -> rolling-back -> failed;
\* no edge leaves completed or failed.
StageEdges ==
    {<<"planning", "deploying">>, <<"deploying", "monitoring">>,
     <<"monitoring", "monitoring">>, <<"monitoring", "completed">>,
     <<"monitoring", "rolling-back">>, <<"rolling-back", "failed">>}
C1_StageMachine ==
    \A d \in DOMAIN stageWrites :
        \A i \in 1..(Len(stageWrites[d]) - 1) :
            <<stageWrites[d][i], stageWrites[d][i + 1]>> \in StageEdges

\* C2: a stage loop whose deployment was rolled back while it waited between two
\* firings is cancelled at its next firing: it makes no further health check, starts
\* no further stage and does not complete the deployment.
RolledBackFromOutside(d) ==
    \/ d \in emergencyRolledBack
    \/ \E i \in 1..Len(rollbackHistory) : rollbackHistory[i].deploymentId = d
C2_LoopCancelled ==
    [][\A d \in DOMAIN stageLoop :
          (/\ stageLoop[d].running
           /\ deployments[d].stage \in RolledBack
           /\ RolledBackFromOutside(d))
              => /\ stageLoop'[d].checksCompleted = stageLoop[d].checksCompleted
                 /\ stageLoop'[d].stageIndex = stageLoop[d].stageIndex
                 /\ deployments'[d].stage \in RolledBack]_vars

\* C3: once rollbackDeployment(d) has completed, no request is routed to the patch of
\* d: shouldUseNewMiddleware(d) is false for every draw, the flag is never re-created.
Draws == {0, 25, 75}
C3_NeverRoutedAgain ==
    [][\A d \in DOMAIN deployments :
          deployments[d].stage = "failed"
              => \A r \in Draws : ~shouldUseNewMiddleware(featureFlags', d, r)]_vars

\* C4: once a deployment made by deployFix is rolled back, the Injector holds no
\* active injection for its patch.
C4_RolledBackNotInjected ==
    \A d \in DOMAIN deployments \cap DOMAIN activeMiddleware :
        deployments[d].stage \in RolledBack => ~activeMiddleware[d].active

\* C5: trafficPercentage is 0 whenever the stage is rolling-back or failed, and a
\* positive trafficPercentage returns to 0 only in a step into rolling-back or failed.
C5_TrafficZeroIffRolledBack ==
    [][\A d \in DOMAIN deployments' :
          /\ deployments'[d].stage \in RolledBack => deployments'[d].trafficPercentage = 0
          /\ (/\ d \in DOMAIN deployments
              /\ deployments[d].trafficPercentage > 0
              /\ deployments'[d].trafficPercentage = 0)
                 => deployments'[d].stage \in RolledBack]_vars

\* C6: while a deployment stays in deploying or monitoring its trafficPercentage
\* never decreases, for every plan.
C6_TrafficNonDecreasing ==
    [][\A d \in DOMAIN deployments :
          (/\ deployments[d].stage \in {"deploying", "monitoring"}
           /\ deployments'[d].stage \in {"deploying", "monitoring"})
              => deployments'[d].trafficPercentage >= deployments[d].trafficPercentage]_vars

\* C7: rollbackDeployment(d, trigger) on a deployment that is already rolling-back or
\* failed changes neither its status nor the feature flags nor the metrics collection.
C7_RollbackIdempotent ==
    [][\A d \in DOMAIN deployments, t \in Triggers :
          (deployments[d].stage \in RolledBack /\ RollbackDeployment(d, t))
              => UNCHANGED <<deployments, featureFlags, activeCollectors>>]_vars

\* C8: after emergencyRollbackAll has rolled back two deployments, both stay failed
\* (or rolling-back) and the Injector has no active patch, whatever runs afterwards.
C8_EmergencyStaysStopped ==
    Cardinality(emergencyRolledBack) >= 2
        => /\ \A d \in emergencyRolledBack : deployments[d].stage \in RolledBack
           /\ getAllInjections(activeMiddleware) = {}

C10_CriticalAlwaysRollsBack ==
    [][\A d \in DOMAIN monitors, m \in Snapshots :
          (/\ monitors[d].active
           /\ deployments[d].stage \notin {"completed", "failed"}
           /\ (m.errorRate > CriticalRate \/ m.successRate < CriticalRate)
           /\ MonitorPoll(d, m))
              => /\ deployments'[d].stage \in RolledBack
                 /\ d \notin DOMAIN featureFlags']_vars

\* C11: a poll in which a metric violates its trigger for the third time within the
\* trailing 60 s (this poll and two recorded violations less than WindowPolls polls
\* old) rolls the deployment back, although no observation is critical.
SustainedAt(d, m) ==
    \E i \in 1..Len(monitors[d].triggers) :
        LET t == monitors[d].triggers[i]
            earlier == {j \in 1..Len(monitors[d].violations) :
                           /\ monitors[d].violations[j].metric = t.metric
                           /\ monitors[d].checks + 1 - monitors[d].violations[j].timestamp
                                  < WindowPolls}
        IN  /\ violatedBy(t, m)
            /\ Cardinality(earlier) >= 2
ChecksSeen(d) ==
    Cardinality({i \in 1..Len(deployments[d].events) :
                     deployments[d].events[i] = "metrics-check"})
C12_SustainedErrorsRollBack ==
    [][\A d \in DOMAIN deployments, b \in Baselines :
          (/\ Degraded.errorRate > StageMaxErrorRate
           /\ ChecksSeen(d) >= 3
           /\ StageTick(d, Degraded, b))
              => deployments'[d].stage \in RolledBack]_vars

\* C13: a stage health check whose only failing condition is a window of fewer than
\* 10 samples (rates and latency within the thresholds) does not fail the stage: the
\* deployment is not rolled back in that firing.
RatesOk(m, b, thresholds) ==
    /\ m.successRate >= thresholds.successRate
    /\ m.errorRate <= thresholds.errorRate
    /\ latencyOk(m, b, thresholds)
C13_LowSampleNeverFails ==
    [][\A d \in DOMAIN deployments, m \in Snapshots, b \in Baselines :
          (/\ deployments[d].stage \notin RolledBack
           /\ RatesOk(m, b, deployments[d].rollbackThresholds)
           /\ m.sampleSize < MinSampleSize
           /\ StageTick(d, m, b))
              => deployments'[d].stage \notin RolledBack]_vars

\* C14: every step that rolls a deployment back, whoever initiated it, adds a
\* RollbackRecord for that deployment, and the records already in the history are
\* neither changed nor removed.
RecordsOf(history, d) ==
    Cardinality({i \in 1..Len(history) : history[i].deploymentId = d})
C14_EveryRollbackRecorded ==
    [][/\ \A d \in DOMAIN deployments :
              (deployments[d].stage \notin RolledBack /\ deployments'[d].stage \in RolledBack)
                  => RecordsOf(rollbackHistory', d) > RecordsOf(rollbackHistory, d)
       /\ Len(rollbackHistory') >= Len(rollbackHistory)
       /\ SubSeq(rollbackHistory', 1, Len(rollbackHistory)) = rollbackHistory]_vars

\* C16: while a circuit breaker runs for the route, a firing at which the route's
\* error rate is above the breaker's threshold on at least the minimum sample size
\* leaves no deployment outside completed / failed and no active injection.
AllStopped ==
    /\ \A d \in DOMAIN deployments : deployments[d].stage \in {"completed", "failed"}
    /\ getAllInjections(activeMiddleware) = {}
C16_BreakerRollsBackAll ==
    \A k \in 1..Len(circuitBreakers), traffic \in BreakerSnapshots,
       stale \in {getEmptyMetrics, Critical} :
        (/\ traffic.errorRate > BreakerThresholds.errorRate
         /\ traffic.sampleSize >= MinSampleSize)
            => ~ENABLED (BreakerCheck(k, traffic, stale) /\ ~AllStopped')

\* C17: a circuit breaker that has tripped keeps guarding its route: its check is
\* still running, so that a later breach trips it again.
C17_BreakerStaysArmed ==
    \A k \in 1..Len(circuitBreakers) :
        circuitBreakers[k] = "tripped"
            => ENABLED (\E stale \in {getEmptyMetrics, Critical} :
                           /\ BreakerCheck(k, Critical, stale)
                           /\ circuitBreakers'[k] = "tripped")

\* C18: with maxConcurrentDeploys patches attached, a further deployFix ends in the
\* capacity error: it is not queued and changes no deployment, injection, monitor or
\* metrics collection.
C18_CapacityErrorChangesNothing ==
    [][\A d \in Ids :
          (/\ Cardinality(DOMAIN activeMiddleware) >= maxConcurrentDeploys
           /\ InjectBegin(d))
              => /\ capacityErrors' = capacityErrors + 1
                 /\ UNCHANGED <<deployments, featureFlags, stageLoop, activeCollectors,
                                monitors, monitorLoops, activeMiddleware,
                                pendingInjects>>]_vars

\* A deployFix was refused while the fix that holds the slot is still being rolled
\* out.
C18_Witness ==
    /\ capacityErrors > 0
    /\ \E d \in DOMAIN deployments :
           /\ deployments[d].stage = "monitoring"
           /\ stageLoop[d].running
           /\ activeMiddleware[d].active

\* C19: however injectMiddleware calls interleave, the Injector never has more than
\* maxConcurrentDeploys active patches.
C19_NeverAboveCap ==
    Cardinality(getAllInjections(activeMiddleware)) <= maxConcurrentDeploys

\* C20: a patch whose deployment is completed or failed, or that an emergency stop
\* disabled, holds no slot: once every stage loop has ended and no attach is under
\* way, a deployFix made while fewer than maxConcurrentDeploys patches are live is
\* not refused.
LivePatches ==
    {d \in DOMAIN activeMiddleware :
        /\ activeMiddleware[d].active
        /\ deployments[d].stage \notin {"completed", "failed"}}
Quiescent ==
    /\ pendingInjects = {}
    /\ \A d \in DOMAIN stageLoop : ~stageLoop[d].running
C20_SlotsAreReleased ==
    [][\A d \in Ids :
          (/\ Quiescent
           /\ Cardinality(LivePatches) < maxConcurrentDeploys
           /\ InjectBegin(d))
              => capacityErrors' = capacityErrors]_vars

\* C21: every started deployment eventually reaches completed or failed, and no
\* stage interval is still running once its duration plus the safety buffer has
\* passed.
C21_EveryDeploymentResolves ==
    /\ [](\A d \in DOMAIN stageLoop :
              stageLoop[d].running => stageLoop[d].ticks < StageTicks + BufferTicks)
    /\ \A d \in Solo :
           (d \in DOMAIN deployments)
               ~> (d \in DOMAIN deployments
                       /\ deployments[d].stage \in {"completed", "failed"})

\* A deployment has completed and every safety timeout of its stages has fired, each
\* after its stage had resolved.
C21_Witness ==
    \E d \in DOMAIN deployments :
        /\ deployments[d].stage = "completed"
        /\ ~stageLoop[d].running
        /\ stageLoop[d].timeouts = {}

\* C22: the stages of a deployment are supervised in plan order, one at a time: the
\* first interval is that of stage 0, the interval of stage N is started only by the
\* firing that ends the duration of stage N-1, health evaluations are made only by
\* the running interval, and an interval that has finished evaluates nothing more.
C22_StagesInOrder ==
    [][\A d \in DOMAIN stageLoop' :
          IF d \notin DOMAIN stageLoop
          THEN stageLoop'[d].stageIndex = 0 /\ stageLoop'[d].checksCompleted = 0
          ELSE LET l == stageLoop[d]
                   n == stageLoop'[d]
               IN  /\ n.stageIndex \in {l.stageIndex, l.stageIndex + 1}
                   /\ n.stageIndex = l.stageIndex + 1
                          => /\ l.running
                             /\ l.ticks + 1 >= StageTicks
                             /\ n.checksCompleted = 0
                   /\ n.stageIndex = l.stageIndex
                          => n.checksCompleted \in {l.checksCompleted, l.checksCompleted + 1}
                   /\ ~l.running
                          => /\ n.stageIndex = l.stageIndex
                             /\ n.checksCompleted = l.checksCompleted
                             /\ ~n.running]_vars

\* The second stage of a plan has had a health evaluation, made by its own interval
\* after the first stage had run its duration.
C22_Witness ==
    \E d \in DOMAIN stageLoop :
        /\ stageLoop[d].stageIndex = 1
        /\ stageLoop[d].checksCompleted >= 1
        /\ stageLoop[d].running

C24_RemovedPassesThrough ==
    \A k \in 1..Len(returned.trace) :
        LET e == returned.trace[k]
        IN  e.id \notin DOMAIN activeMiddleware
                => ~e.invoked /\ e.next = <<"ok">>

\* A request went through the wrapper of a removed injection.
C24_Witness ==
    \E k \in 1..Len(returned.trace) :
        /\ returned.trace[k].id \notin DOMAIN activeMiddleware
        /\ ~returned.trace[k].invoked

\* C25: no two active injections are attached to the same route and match
\* conditions (deployFix derives the conditions from the route).
C25_OneActivePerRoute ==
    \A i, j \in getAllInjections(activeMiddleware) :
        i # j => activeMiddleware[i].targetEndpoint # activeMiddleware[j].targetEndpoint

\* C26: every invocation of an active patch adds exactly one to its requestCount;
\* if the patch throws, exactly one is added to its errorCount and the last call of
\* the continuation carries the error.
C26_CountedOnce ==
    [][\A b \in Behaviours :
          Request(b)
              => \A k \in 1..Len(returned'.trace) :
                     LET e == returned'.trace[k]
                     IN  e.invoked
                             => /\ activeMiddleware'[e.id].requestCount
                                       = activeMiddleware[e.id].requestCount + 1
                                /\ b.throws
                                       => /\ activeMiddleware'[e.id].errorCount
                                                 = activeMiddleware[e.id].errorCount + 1
                                          /\ e.next[Len(e.next)] = "error"]_vars

\* C27: a deployment's event log never holds more than MaxEvents events; it holds
\* the newest min(eventsAdded, MaxEvents) of the events added, and a step that adds k
\* events keeps, in their order, the newest events of the log before it, evicting
\* the oldest.
C27_EventLogBounded ==
    /\ [](\A d \in DOMAIN deployments :
              /\ Len(deployments[d].events) <= MaxEvents
              /\ Len(deployments[d].events)
                     = IF deployments[d].eventsAdded < MaxEvents
                       THEN deployments[d].eventsAdded ELSE MaxEvents)
    /\ [][\A d \in DOMAIN deployments :
              LET e == deployments[d].events
                  n == deployments'[d].events
                  k == deployments'[d].eventsAdded - deployments[d].eventsAdded
              IN  /\ k >= 0
                  /\ \A i \in 1..(Len(n) - k) : n[i] = e[Len(e) + k - Len(n) + i]]_vars

\* Events were added to a full log, the oldest were evicted, and the stage loop of
\* the deployment is running.
C27_Witness ==
    \E d \in DOMAIN deployments :
        /\ deployments[d].eventsAdded > MaxEvents
        /\ Len(deployments[d].events) = MaxEvents
        /\ Head(deployments[d].events) # "stage-start"
        /\ stageLoop[d].running

\* The requests stored for endpoint that fall in the window of a call made at now.
SamplesInWindow(endpoint, now, windowSeconds) ==
    IF endpoint \notin DOMAIN endpointMetrics THEN 0
    ELSE Cardinality({i \in 1..Len(endpointMetrics[endpoint].requests) :
             endpointMetrics[endpoint].requests[i].timestamp >= now - windowSeconds})
\* C28: getMetrics on a route with no recorded request in the window, collected or
\* not, returns sampleSize 0 and successRate, errorRate, latency and throughput 0.
C28_EmptySnapshot ==
    returned.result = "metrics"
        => LET call == returned.trace[1]
           IN  SamplesInWindow(call.endpoint, call.at, call.windowSeconds) = 0
                   => returned.metrics =
                          [successRate |-> 0, errorRate |-> 0, latency |-> 0,
                           throughput |-> 0, sampleSize |-> 0]

\* getMetrics was called on a route whose recorded requests are all older than the
\* window.
C28_Witness ==
    /\ returned.result = "metrics"
    /\ returned.trace[1].endpoint \in DOMAIN endpointMetrics
    /\ endpointMetrics[returned.trace[1].endpoint].requests # << >>
    /\ SamplesInWindow(returned.trace[1].endpoint, returned.trace[1].at,
                       returned.trace[1].windowSeconds) = 0

\* A health check is due at the next firing of the stage interval of d.
CheckDue(d) ==
    /\ stageLoop[d].running
    /\ ~monitoringOver(stageLoop[d].ticks + 1)
    /\ stageLoop[d].ticks + 1 - stageLoop[d].lastCheck >= SampleTicks

\* C29: a stage health check that is unhealthy aborts the deployment in that firing:
\* the interval is cleared, the feature flag removed, the traffic set to 0 and the
\* stage to failed; and a deployment that is failed with its interval cleared stays
\* so: no stage is started or retried.
C29_UnhealthyAborts ==
    [][\A d \in DOMAIN stageLoop :
          /\ \A m \in Snapshots, b \in Baselines :
                 (/\ CheckDue(d)
                  /\ ~checkHealthThresholds(m, b, deployments[d].rollbackThresholds)
                  /\ StageTick(d, m, b))
                     => /\ deployments'[d].stage = "failed"
                        /\ deployments'[d].trafficPercentage = 0
                        /\ d \notin DOMAIN featureFlags'
                        /\ ~stageLoop'[d].running
                        /\ stageLoop'[d].stageIndex = stageLoop[d].stageIndex
          /\ (~stageLoop[d].running /\ deployments[d].stage = "failed")
                 => /\ deployments'[d].stage = "failed"
                    /\ ~stageLoop'[d].running
                    /\ stageLoop'[d].stageIndex = stageLoop[d].stageIndex
                    /\ d \notin DOMAIN featureFlags']_vars

\* A deployment with the default plan failed a health check of its second stage: its
\* interval is cleared before the third stage, and nobody else rolled it back.
C29_Witness ==
    \E d \in DOMAIN stageLoop :
        /\ deployments[d].stage = "failed"
        /\ ~stageLoop[d].running
        /\ stageLoop[d].stageIndex = 1
        /\ Len(deployments[d].plan) = 3
        /\ apiCalls = 0
        /\ rollbackHistory = << >>

\* The events of a type in the log of d.
EventsOf(d, type) ==
    Cardinality({i \in 1..Len(deployments[d].events) : deployments[d].events[i] = type})

\* C30: a deployment becomes completed only in the firing that ends the duration of
\* the last stage of its plan, by an interval that no health check has cleared; by
\* then every stage of the plan has been started and has run to the end of its
\* duration, with at least one health check each.
C30_CompletedOnlyAfterAllStages ==
    [][\A d \in DOMAIN deployments :
          (deployments[d].stage # "completed" /\ deployments'[d].stage = "completed")
              => /\ d \in DOMAIN stageLoop
                 /\ stageLoop[d].running
                 /\ stageLoop[d].stageIndex = Len(deployments[d].plan) - 1
                 /\ stageLoop[d].ticks + 1 >= StageTicks
                 /\ stageLoop[d].checksCompleted >= 1
                 /\ EventsOf(d, "stage-start") = Len(deployments[d].plan) + 1
                 /\ EventsOf(d, "stage-complete") = Len(deployments[d].plan) - 1
                 /\ EventsOf(d, "metrics-check") >= Len(deployments[d].plan)]_vars

\* A deployment with the default plan has completed.
C30_Witness ==
    \E d \in DOMAIN deployments :
        /\ deployments[d].stage = "completed"
        /\ Len(deployments[d].plan) = 3
        /\ stageLoop[d].stageIndex = 2
        /\ ~stageLoop[d].running

\* C31: while a deployment is deploying or monitoring with its stage interval
\* running, samples of its route are recorded (the route is in activeCollectors,
\* which is what recordRequest tests), whatever has happened to other deployments
\* on the route.
C31_RecordingKeptForOthers ==
    \A d \in DOMAIN deployments :
        (deployments[d].stage \in {"deploying", "monitoring"} /\ stageLoop[d].running)
            => deployments[d].endpoint \in activeCollectors

\* C32: a stage health check that observes a success rate below the stage's
\* successThreshold or an error rate above the stage's maxErrorRate ends the stage:
\* its interval does not go on to mark the stage complete.
C32_StageThresholdsEnforced ==
    [][\A d \in DOMAIN stageLoop, m \in {Healthy, Marginal}, b \in Baselines :
          (/\ CheckDue(d)
           /\ (m.successRate < StageSuccessThreshold \/ m.errorRate > StageMaxErrorRate)
           /\ StageTick(d, m, b))
              => ~stageLoop'[d].running]_vars

\* C33: a rollback-monitor poll whose snapshot has fewer than MinSampleSize samples
\* (the empty snapshot included) rolls nothing back: no rollback record is added and
\* the deployment's stage and feature flag stay as they were.
C33_LowSampleNeverRollsBack ==
    [][\A d \in DOMAIN monitors, m \in Snapshots :
          (m.sampleSize < MinSampleSize /\ MonitorPoll(d, m))
              => /\ rollbackHistory' = rollbackHistory
                 /\ deployments'[d].stage = deployments[d].stage
                 /\ (d \in DOMAIN featureFlags <=> d \in DOMAIN featureFlags')]_vars

\* C34: a request that invokes the patch of an injection is handled by the callable
\* the injection holds then, so by f2 after updateMiddleware(id, f2) has succeeded;
\* and an updateMiddleware that ends in the validation error leaves the injection
\* unchanged.
C34_ReplacedCallableHandles ==
    [][/\ \A b \in Behaviours :
              Request(b)
                  => \A k \in 1..Len(returned'.trace) :
                         LET e == returned'.trace[k]
                         IN  e.invoked => e.function = activeMiddleware[e.id].function
       /\ \A id \in Solo, n \in ParamCounts :
              (UpdateMiddleware(id, n) /\ returned'.result = "validation-error")
                  => UNCHANGED activeMiddleware]_vars

\* The min(limit, n) most recent of the n records of history, most recent first.
MostRecent(history, limit) ==
    LET n == Len(history)
        k == IF limit < n THEN limit ELSE n
    IN  [i \in 1..k |-> history[n - i + 1]]

\* C35: getRollbackHistory(limit) returns the min(limit, n) most recent of the n
\* records the history held at the call, most recent first, for every limit >= 0.
C35_HistoryMostRecentFirst ==
    returned.result = "history"
        => LET call == returned.trace[1]
           IN  call.records = MostRecent(SubSeq(rollbackHistory, 1, call.at), call.limit)

\* The polls of the trailing window in which metric violated a trigger of the
\* monitor of d, the poll that now observes m included.
ViolatingPolls(d, m, metric) ==
    LET poll == monitors[d].checks + 1
        earlier == {monitors[d].violations[j].timestamp :
                        j \in {i \in 1..Len(monitors[d].violations) :
                                  /\ monitors[d].violations[i].metric = metric
                                  /\ poll - monitors[d].violations[i].timestamp < WindowPolls}}
        now == IF \E i \in 1..Len(monitors[d].triggers) :
                      /\ monitors[d].triggers[i].metric = metric
                      /\ violatedBy(monitors[d].triggers[i], m)
               THEN {poll} ELSE {}
    IN  Cardinality(earlier \cup now)

\* C36: a rollback-monitor poll that observes no critical value rolls back only if
\* some metric violated its threshold in at least 3 distinct polls of the trailing
\* 60 s, this poll included, whatever the trigger list.
C36_ThreePollsBeforeRollback ==
    [][\A d \in DOMAIN monitors, m \in {Healthy, Degraded, Slow} :
          (MonitorPoll(d, m) /\ rollbackHistory' # rollbackHistory)
              => \E metric \in {"error-rate", "success-rate", "response-time"} :
                     ViolatingPolls(d, m, metric) >= 3]_vars

\* C37: while a deployment is in monitoring, status.currentStage is the index in
\* the plan of the stage its interval supervises.
C37_CurrentStageIsLoopStage ==
    \A d \in DOMAIN deployments :
        (deployments[d].stage = "monitoring" /\ stageLoop[d].running)
            => deployments[d].currentStage = stageLoop[d].stageIndex

\* C38: the reported and the routed share of traffic agree: a deployment with a
\* feature flag reports the flag's rolloutPercentage as its trafficPercentage, and
\* a deployment without a flag reports 0.
C38_ReportedIsRouted ==
    \A d \in DOMAIN deployments :
        IF d \in DOMAIN featureFlags
        THEN featureFlags[d].rolloutPercentage = deployments[d].trafficPercentage
        ELSE deployments[d].trafficPercentage = 0

\* C39: for a request that reaches a wrapper, the wrapper calls the continuation
\* exactly once, whether its injection is gone or inactive or its patch calls
\* next(), calls next(error), throws, or throws after having called next.  (A patch
\* that answers the request itself, calling nothing and throwing nothing, is left
\* out.)
C39_ContinuationOnce ==
    [][\A b \in Behaviours :
          ((b.calls # << >> \/ b.throws) /\ Request(b))
              => \A k \in 1..Len(returned'.trace) :
                     Len(returned'.trace[k].next) = 1]_vars
====
